---- MODULE Spec2Model ----
(***************************************************************************)
(* A model of JOI's tool-call core: ToolRegistry (register, execute,       *)
(* extract_tool_calls) of src/tools/tool_registry.py and the turn loops of *)
(* src/gemini_chatbot.py, src/openai_chatbot.py and src/api_server.py.     *)
(*                                                                         *)
(* Text is a sequence of symbols.  A marker's literal prefix, such as      *)
(* "[OPEN_APP:", is one symbol ("[A"); "]" closes a marker, " " stands for *)
(* any whitespace character, "|" is the dual-argument delimiter and "x"    *)
(* any other character.  "[#" followed by "]" is the placeholder text       *)
(* "[#MATCHED#]", which extract_tool_calls writes and a text may hold.     *)
(***************************************************************************)
EXTENDS Integers, Sequences, FiniteSets, TLC

VARIABLES
    tools,          \* ToolRegistry.tools: name -> handler
    patterns,       \* ToolRegistry.patterns in insertion order: <<[name, pattern]>>
    priorities,     \* ToolRegistry.priorities: name -> priority
    text,           \* the argument of the last extract_tool_calls
    tool_calls,     \* what the last extract_tool_calls returned
    scans,          \* the working copies of the last extract_tool_calls, one per tool
    call,           \* the arguments of the last ToolRegistry.execute
    result,         \* the text it returned
    raised,         \* whether it raised instead of returning
    invoked,        \* the handler invocations it made: <<[tool, args]>>
    loop,           \* the turn loop that runs, and for api_server its model_to_use
    pc,             \* where the turn loop stands
    conversation_history,   \* History: <<[role, text, tool, value, result]>>
    tool_call_count,
    has_tool_calls,
    next_call,      \* the place in tool_calls of the call to execute next
    tool_results,   \* the console loops' tool_results of the batch
    sent,           \* the messages handed to the backend by the last model call
    emitted,        \* what the turn printed, logged or sent to the client
    model_calls,    \* the model calls of the turn so far
    batches,        \* the tool batches of the turn so far
    all_marked,     \* whether every model response of the turn held a marker
    odd,            \* the rare events of the turn so far (see MaxOdd)
    active_connections,     \* api_server.active_connections: connection_id -> entry
    handlers,       \* each websocket handler's position and turn locals
    chat_session,   \* gemini_chatbot.chat_session: whose payloads it has been sent
    backend_content,    \* per connection, whose turns its last model call sent
    event,          \* the last step of a websocket handler: [conn, type]
    received,       \* the client messages received so far (see MaxReceived)
    marked,         \* the model responses with markers so far (see MaxMarked)
    db_instance,    \* memory_astra.db_instance
    collection_instance,    \* memory_astra.collection_instance
    db_lock,        \* memory_astra.db_lock: the coroutine that holds it
    credentials,    \* whether the endpoint and the token are in the environment
    coroutines,     \* the calls of store_memory and query_memory: where each stands
    memory_calls    \* the calls made so far (see MaxCalls)

registry == <<tools, patterns, priorities>>
extraction == <<text, tool_calls, scans>>
dispatch == <<call, result, raised, invoked>>
turn == <<loop, pc, conversation_history, tool_call_count, has_tool_calls,
          next_call, tool_results, sent, emitted, model_calls, batches,
          all_marked, odd>>
sessions == <<active_connections, handlers, chat_session, backend_content, event,
              received, marked>>
memory == <<db_instance, collection_instance, db_lock, credentials, coroutines,
            memory_calls>>
vars == <<registry, extraction, dispatch, turn, sessions, memory>>

-----------------------------------------------------------------------------
(* Text *)

IsSpace(c) == c = " "

RECURSIVE LStrip(_)
LStrip(s) == IF s # <<>> /\ IsSpace(Head(s)) THEN LStrip(Tail(s)) ELSE s

RECURSIVE RStrip(_)
RStrip(s) ==
    IF s # <<>> /\ IsSpace(s[Len(s)]) THEN RStrip(SubSeq(s, 1, Len(s) - 1)) ELSE s

\* str.strip()
Strip(s) == RStrip(LStrip(s))

\* s[from:to] with Python's 0-based, end-exclusive offsets
Slice(s, from, to) == SubSeq(s, from + 1, to)

\* the least index >= i (1-based) where s holds c, or 0
RECURSIVE IndexFrom(_, _, _)
IndexFrom(s, c, i) ==
    IF i > Len(s) THEN 0
    ELSE IF s[i] = c THEN i
    ELSE IndexFrom(s, c, i + 1)

\* old * n
RECURSIVE Repeat(_, _)
Repeat(old, n) == IF n <= 0 THEN <<>> ELSE old \o Repeat(old, n - 1)

\* s.replace(old, ""): the occurrences of old found from left to right,
\* without overlap, removed; what the removal brings together is not
\* searched again
RECURSIVE Remove(_, _)
Remove(s, old) ==
    IF Len(s) < Len(old) THEN s
    ELSE IF SubSeq(s, 1, Len(old)) = old
    THEN Remove(SubSeq(s, Len(old) + 1, Len(s)), old)
    ELSE <<Head(s)>> \o Remove(Tail(s), old)

RECURSIVE Concat(_)
Concat(ss) == IF ss = <<>> THEN <<>> ELSE Head(ss) \o Concat(Tail(ss))

-----------------------------------------------------------------------------
\* Detection patterns: r'\[KW:\s*([^\]]+)\]' and its variants.
\*   kw     the literal prefix "[KW:" as one symbol
\*   min    1 for a group of one or more characters (+), 0 for any number (*)
\*   group  whether the pattern has capture group 1
\*   valid  FALSE for a pattern re.finditer rejects with re.error

Pattern(kw, min, group, valid) ==
    [kw |-> kw, min |-> min, group |-> group, valid |-> valid]

NoMatch == [ok |-> FALSE]

\* The match of pattern p that starts at 0-based offset i of s, or NoMatch.
\* "[KW:" must stand at i; \s*([^\]]+)\] then runs to the first "]" after it,
\* and needs min characters before it.  Group 1 is what \s* leaves of that
\* stretch: \s* is greedy but gives back one whitespace when [^\]]+ would
\* otherwise be empty.  start and end are match.start() and match.end().
MatchAt(p, s, i) ==
    IF i + 1 > Len(s) \/ s[i + 1] # p.kw THEN NoMatch
    ELSE LET close == IndexFrom(s, "]", i + 2)
             inner == IF close = 0 THEN <<>> ELSE SubSeq(s, i + 2, close - 1)
             rest  == LStrip(inner)
             g1    == IF Len(rest) < p.min THEN SubSeq(inner, Len(inner), Len(inner))
                      ELSE rest
         IN  IF close = 0 \/ Len(inner) < p.min THEN NoMatch
             ELSE [ok |-> TRUE, start |-> i, end |-> close, group1 |-> g1]

\* re.finditer(pattern, s): the non-overlapping matches, leftmost first,
\* scanning on from 0-based offset i.
RECURSIVE FindIter(_, _, _)
FindIter(p, s, i) ==
    IF i >= Len(s) THEN <<>>
    ELSE LET m == MatchAt(p, s, i)
         IN  IF ~m.ok THEN FindIter(p, s, i + 1)
             ELSE <<m>> \o FindIter(p, s, m.end)

-----------------------------------------------------------------------------
\* ToolRegistry

\* A handler is a callable, synchronous or a coroutine function; register
\* refuses anything else.
SyncHandler  == [callable |-> TRUE, coroutine |-> FALSE]
AsyncHandler == [callable |-> TRUE, coroutine |-> TRUE]
NotCallable  == [callable |-> FALSE, coroutine |-> FALSE]

Registered == DOMAIN tools

\* the index of name in self.patterns, or 0
RECURSIVE PatternIndex(_, _, _)
PatternIndex(ps, name, i) ==
    IF i > Len(ps) THEN 0
    ELSE IF ps[i].name = name THEN i
    ELSE PatternIndex(ps, name, i + 1)

\* d[name] = value on a dict: a present key keeps its place, a new one is last
DictSet(ps, name, pattern) ==
    LET i == PatternIndex(ps, name, 1)
    IN  IF i = 0 THEN Append(ps, [name |-> name, pattern |-> pattern])
        ELSE [ps EXCEPT ![i].pattern = pattern]

\* ToolRegistry.register on a registry r = [tools, patterns, priorities]:
\* the registry it leaves (a handler that is not callable raises TypeError
\* before anything is stored)
Registration(r, name, function, pattern, priority) ==
    IF ~function.callable THEN r
    ELSE [tools |-> [n \in DOMAIN r.tools \cup {name} |->
                        IF n = name THEN function ELSE r.tools[n]],
          patterns |-> DictSet(r.patterns, name, pattern),
          priorities |-> [n \in DOMAIN r.priorities \cup {name} |->
                             IF n = name THEN priority ELSE r.priorities[n]]]

register(name, function, pattern, priority) ==
    LET r == Registration([tools |-> tools, patterns |-> patterns,
                           priorities |-> priorities],
                          name, function, pattern, priority)
    IN  /\ tools' = r.tools
        /\ patterns' = r.patterns
        /\ priorities' = r.priorities

\* ToolRegistry.__init__
EmptyRegistry == [tools |-> <<>>, patterns |-> <<>>, priorities |-> <<>>]

\* The registrations of tools/__init__.py, in order.  open_app and
\* system_info are plain functions, the others coroutine functions.
Registrations ==
    << [name |-> "app",          function |-> SyncHandler,
        pattern |-> Pattern("[A", 1, TRUE, TRUE), priority |-> 10],
       [name |-> "search",       function |-> AsyncHandler,
        pattern |-> Pattern("[S", 1, TRUE, TRUE), priority |-> 20],
       [name |-> "sysinfo",      function |-> SyncHandler,
        pattern |-> Pattern("[I", 0, TRUE, TRUE), priority |-> 30],
       [name |-> "fs_list",      function |-> AsyncHandler,
        pattern |-> Pattern("[L", 1, TRUE, TRUE), priority |-> 40],
       [name |-> "fs_read",      function |-> AsyncHandler,
        pattern |-> Pattern("[R", 1, TRUE, TRUE), priority |-> 41],
       [name |-> "fs_write",     function |-> AsyncHandler,
        pattern |-> Pattern("[W", 1, TRUE, TRUE), priority |-> 42],
       [name |-> "fs_mkdir",     function |-> AsyncHandler,
        pattern |-> Pattern("[D", 1, TRUE, TRUE), priority |-> 43],
       [name |-> "fs_find",      function |-> AsyncHandler,
        pattern |-> Pattern("[F", 1, TRUE, TRUE), priority |-> 44],
       [name |-> "email",        function |-> AsyncHandler,
        pattern |-> Pattern("[E", 1, TRUE, TRUE), priority |-> 50],
       [name |-> "memory_store", function |-> AsyncHandler,
        pattern |-> Pattern("[M", 1, TRUE, TRUE), priority |-> 60],
       [name |-> "memory_query", function |-> AsyncHandler,
        pattern |-> Pattern("[Q", 1, TRUE, TRUE), priority |-> 61] >>

RECURSIVE RegisterAll(_, _)
RegisterAll(r, regs) ==
    IF regs = <<>> THEN r
    ELSE LET g == Head(regs)
         IN  RegisterAll(Registration(r, g.name, g.function, g.pattern, g.priority),
                         Tail(regs))

\* tools.tool_registry once tools/__init__.py has run
tool_registry == RegisterAll(EmptyRegistry, Registrations)

\* sorted(items, key=priority): stable, so items of equal priority keep the
\* order of self.patterns.  Insert puts item after every item whose key is
\* not greater.
RECURSIVE Insert(_, _, _)
Insert(sorted, item, prio) ==
    IF sorted = <<>> THEN <<item>>
    ELSE IF prio[Head(sorted).name] <= prio[item.name]
         THEN <<Head(sorted)>> \o Insert(Tail(sorted), item, prio)
         ELSE <<item>> \o sorted

\* (a mutant: the items left in registration order)
SortedInRegistrationOrder(items, prio) == items

RECURSIVE Sorted(_, _)
Sorted(items, prio) ==
    IF items = <<>> THEN <<>>
    ELSE Insert(Sorted(SubSeq(items, 1, Len(items) - 1), prio), items[Len(items)], prio)

\* (a mutant: the matches are left in the working copy)
MaskedNothing(s, matches, last_end) == s

\* "[#MATCHED#]": the symbol "[#" is the text "[#MATCHED#", and "]" closes it
\* as it closes a marker
Placeholder == <<"[#", "]">>

\* new_processed_text: the text between the matches, each match replaced by
\* one placeholder per character of it, and the text after the last match
RECURSIVE Masked(_, _, _)
Masked(s, matches, last_end) ==
    IF matches = <<>> THEN Slice(s, last_end, Len(s))
    ELSE LET match == Head(matches)
         IN  Slice(s, last_end, match.start)
             \o Repeat(Placeholder, match.end - match.start)
             \o Masked(s, Tail(matches), match.end)

\* new_processed_text.replace("[#MATCHED#]", "")
CleanUp(new_processed_text) == Remove(new_processed_text, Placeholder)

\* (a mutant: group 1 taken without strip())
CallOfUntrimmed(tool_name, pattern, match) ==
    <<tool_name, IF pattern.group THEN match.group1 ELSE <<>>>>

\* the call appended for one match: (tool_name, match.group(1).strip()), or
\* (tool_name, "") when the pattern captured no group 1
CallOf(tool_name, pattern, match) ==
    <<tool_name, IF pattern.group THEN Strip(match.group1) ELSE <<>>>>

\* (a mutant: a pattern that raises re.error ends the extraction, nothing is
\* left for the tools after it)
ScanToolAborting(item, processed_text) ==
    IF ~item.pattern.valid
    THEN [name |-> item.name, error |-> TRUE, before |-> processed_text,
          matches |-> <<>>, calls |-> <<>>, masked |-> processed_text,
          after |-> <<>>]
    ELSE LET matches == FindIter(item.pattern, processed_text, 0)
             masked  == Masked(processed_text, matches, 0)
         IN  [name |-> item.name, error |-> FALSE, before |-> processed_text,
              matches |-> matches,
              calls |-> [k \in 1..Len(matches) |->
                            CallOf(item.name, item.pattern, matches[k])],
              masked |-> masked,
              after |-> CleanUp(masked)]

\* One iteration of "for tool_name, pattern in sorted_tools": the scan of one
\* tool over the working copy.  A pattern that raises re.error is skipped
\* and leaves the working copy as it is.
ScanTool(item, processed_text) ==
    IF ~item.pattern.valid
    THEN [name |-> item.name, error |-> TRUE, before |-> processed_text,
          matches |-> <<>>, calls |-> <<>>, masked |-> processed_text,
          after |-> processed_text]
    ELSE LET matches == FindIter(item.pattern, processed_text, 0)
             masked  == Masked(processed_text, matches, 0)
         IN  [name |-> item.name, error |-> FALSE, before |-> processed_text,
              matches |-> matches,
              calls |-> [k \in 1..Len(matches) |->
                            CallOf(item.name, item.pattern, matches[k])],
              masked |-> masked,
              after |-> CleanUp(masked)]

\* the scans of extract_tool_calls's loop over sorted_tools, in order
RECURSIVE ScanAll(_, _)
ScanAll(sorted_tools, processed_text) ==
    IF sorted_tools = <<>> THEN <<>>
    ELSE LET scan == ScanTool(Head(sorted_tools), processed_text)
         IN  <<scan>> \o ScanAll(Tail(sorted_tools), scan.after)

RECURSIVE CallsOf(_)
CallsOf(ss) == IF ss = <<>> THEN <<>> ELSE Head(ss).calls \o CallsOf(Tail(ss))

\* ToolRegistry.extract_tool_calls(text) on a registry
ExtractScans(ps, prio, t) == ScanAll(Sorted(ps, prio), t)
ExtractToolCalls(ps, prio, t) == CallsOf(ExtractScans(ps, prio, t))

-----------------------------------------------------------------------------
\* ToolRegistry.execute

\* Python's None where a string is optional, and the string "basic"
None  == <<"None">>
Basic == <<"basic">>

Contains(s, c) == IndexFrom(s, c, 1) # 0

\* (a mutant: s.rsplit(c, 1), the split at the last c)
SplitAtLast(s, c) ==
    LET i == CHOOSE k \in 1..Len(s) :
                 s[k] = c /\ \A l \in (k + 1)..Len(s) : s[l] # c
    IN  <<SubSeq(s, 1, i - 1), SubSeq(s, i + 1, Len(s))>>

\* s.split(c, 1) of an s that holds c: what stands before the first c, and
\* all that follows it
SplitOnce(s, c) ==
    LET i == IndexFrom(s, c, 1)
    IN  <<SubSeq(s, 1, i - 1), SubSeq(s, i + 1, Len(s))>>

\* The texts execute returns.  tool is the tool_type the text names.
UnknownToolType(tool_type) ==
    [kind |-> "Unknown tool type", tool |-> tool_type, args |-> <<>>]
InvalidArguments(tool_type, tool_argument) ==
    [kind |-> "Error: Invalid arguments", tool |-> tool_type,
     args |-> <<tool_argument>>]
EmptyPath(tool_type) ==
    [kind |-> "Error: Path/start_path argument cannot be empty", tool |-> tool_type,
     args |-> <<>>]
MissingArgument(tool_type) ==
    [kind |-> "Error: Missing argument", tool |-> tool_type, args |-> <<>>]
UnexpectedError(tool_type) ==
    [kind |-> "Error: An unexpected error occurred", tool |-> tool_type,
     args |-> <<>>]
\* what the handler of tool_type returns for args
HandlerText(tool_type, args) ==
    [kind |-> "handler text", tool |-> tool_type, args |-> args]
NoText == [kind |-> "none", tool |-> "none", args |-> <<>>]

\* What a handler does when it is called: it returns its text, or it raises
\* an Exception (a TimeoutError is one).
Behaviours == {"returns", "raises", "times out"}

Returned(t) == [raised |-> FALSE, result |-> t, invoked |-> <<>>]

\* the coroutine object that a call of a coroutine function gives: nothing
\* of the handler has run
CoroutineObject(tool_type, args) ==
    [kind |-> "coroutine object", tool |-> tool_type, args |-> args]

\* (a mutant: the handler is called and never awaited)
NeverCoroutineFunction(handler) == FALSE

\* inspect.iscoroutinefunction(handler)
IsCoroutineFunction(handler) == handler.coroutine

\* "return await handler(*args)" when the handler is a coroutine function,
\* "return handler(*args)" when it is not: the text the handler returns, or
\* the exception it raises.  A coroutine function that is called and not
\* awaited gives its coroutine object and does not run.
CallHandler(handler, tool_type, args, behaviour) ==
    IF handler.coroutine /\ ~IsCoroutineFunction(handler)
    THEN [raised |-> FALSE, result |-> CoroutineObject(tool_type, args),
          invoked |-> <<>>]
    ELSE [raised |-> behaviour # "returns",
          result |-> IF behaviour = "returns" THEN HandlerText(tool_type, args)
                     ELSE NoText,
          invoked |-> <<[tool |-> tool_type, args |-> args]>>]

\* (a mutant: no except clause, the exception leaves execute)
Propagated(tool_type, r) == r

\* "except Exception as e": an exception raised in the try block becomes the
\* error text that names the tool
Excepted(tool_type, r) ==
    IF r.raised THEN [r EXCEPT !.raised = FALSE, !.result = UnexpectedError(tool_type)]
    ELSE r

\* (a mutant: the first field taken without strip())
FirstFieldRaw(tool_argument) == SplitOnce(tool_argument, "|")[1]

\* arg1 = parts[0].strip() and arg2 = parts[1].strip() of
\* parts = tool_argument.split('|', 1)
FirstField(tool_argument) == Strip(SplitOnce(tool_argument, "|")[1])
SecondField(tool_argument) == Strip(SplitOnce(tool_argument, "|")[2])

\* (a mutant: sysinfo without its default)
ActualArgumentNoDefault(tool_type, tool_argument) == tool_argument

\* (a mutant: the argument trimmed on its way to the handler)
ActualArgumentStripped(tool_type, tool_argument) ==
    IF tool_type = "sysinfo" /\ tool_argument \in {None, <<>>} THEN Basic
    ELSE IF tool_argument = None THEN None
    ELSE Strip(tool_argument)

\* actual_argument: the raw argument, or "basic" for a sysinfo whose
\* argument is None or empty ("not actual_argument")
ActualArgument(tool_type, tool_argument) ==
    IF tool_type = "sysinfo" /\ tool_argument \in {None, <<>>} THEN Basic
    ELSE tool_argument

\* (a mutant: no membership test before the lookup)
AnyToolKnown(ts, tool_type) == TRUE

\* tool_type in self.tools
Known(ts, tool_type) == tool_type \in DOMAIN ts

DualArgumentTools == {"fs_write", "fs_find"}

\* ToolRegistry.execute(tool_type, tool_argument) on the handlers ts, the
\* handler behaving as behaviour says: [raised, result, invoked]
execute(ts, tool_type, tool_argument, behaviour) ==
    IF ~Known(ts, tool_type) THEN Returned(UnknownToolType(tool_type))
    ELSE IF tool_type \notin DOMAIN ts               \* self.tools[tool_type]: KeyError
    THEN [raised |-> TRUE, result |-> NoText, invoked |-> <<>>]
    ELSE LET handler == ts[tool_type]
         IN  IF tool_type \in DualArgumentTools
             THEN IF tool_argument = None \/ ~Contains(tool_argument, "|")
                  THEN Returned(InvalidArguments(tool_type, tool_argument))
                  ELSE LET arg1 == FirstField(tool_argument)
                           arg2 == SecondField(tool_argument)
                       IN  IF arg1 = <<>> THEN Returned(EmptyPath(tool_type))
                           ELSE Excepted(tool_type,
                                    CallHandler(handler, tool_type, <<arg1, arg2>>,
                                                behaviour))
             ELSE LET actual_argument == ActualArgument(tool_type, tool_argument)
                  IN  IF actual_argument = None /\ tool_type # "sysinfo"
                      THEN Returned(MissingArgument(tool_type))
                      ELSE Excepted(tool_type,
                               CallHandler(handler, tool_type, <<actual_argument>>,
                                           behaviour))

NoCall == [tool_type |-> "none", tool_argument |-> None, behaviour |-> "none"]

NoDispatch ==
    /\ call = NoCall
    /\ result = NoText
    /\ raised = FALSE
    /\ invoked = <<>>

-----------------------------------------------------------------------------
\* The turn loops: conversation_loop of gemini_chatbot.py and of
\* openai_chatbot.py, and process_message_with_model_internal of
\* api_server.py with model_to_use "openai" or "gemini".

MAX_CONSECUTIVE_TOOL_CALLS == 15

Loops == {"gemini_chatbot", "openai_chatbot", "api_server openai", "api_server gemini"}
ConsoleLoops == {"gemini_chatbot", "openai_chatbot"}

\* the role labels each loop appends with
UserRole(l) == IF l \in {"gemini_chatbot", "api_server gemini"} THEN "human" ELSE "user"
ModelRole(l) == IF l = "api_server gemini" THEN "model" ELSE "assistant"
ToolRole(l) == IF l \in {"gemini_chatbot", "api_server gemini"} THEN "tool" ELSE "system"

\* A turn of History.  A tool-result turn names the call and holds execute's
\* text; any other turn holds a text.
Turn(role, t) ==
    [role |-> role, text |-> t, tool |-> "none", value |-> <<>>, result |-> NoText]
ToolResultTurn(role, tool_type, tool_value, r) ==
    [role |-> role, text |-> <<>>, tool |-> tool_type, value |-> tool_value,
     result |-> r]

SystemPrompt == Turn("system", <<"system_prompt">>)

\* the text send_to_gemini and send_to_openai return when the API call raised
ErrorText == <<"I encountered an error">>

\* llm_messages of process_message_with_model_internal: History with the
\* roles of the other backend renamed; the console loops send History as it is
LlmRole(l, role) ==
    IF l = "api_server openai"
    THEN (IF role = "human" THEN "user"
          ELSE IF role = "model" THEN "assistant"
          ELSE IF role = "tool" THEN "system"
          ELSE role)
    ELSE IF l = "api_server gemini"
    THEN (IF role = "user" THEN "human"
          ELSE IF role = "assistant" THEN "model"
          ELSE role)
    ELSE role

LlmMessages(l, history) ==
    [k \in 1..Len(history) |-> [history[k] EXCEPT !.role = LlmRole(l, @)]]

\* (a mutant: the loop test lets one more batch through)
WithinCeilingInclusive(count) == count <= MAX_CONSECUTIVE_TOOL_CALLS

\* "tool_call_count < MAX_CONSECUTIVE_TOOL_CALLS" of the three while tests
WithinCeiling(count) == count < MAX_CONSECUTIVE_TOOL_CALLS

\* "tool_call_count == MAX_CONSECUTIVE_TOOL_CALLS" after the loop
ReachedCeiling(count) == count = MAX_CONSECUTIVE_TOOL_CALLS

\* what the loops print, log or send to the client
AiOutput(t) == [type |-> "ai", tool |-> "none"]
ToolStatus(tool_type) == [type |-> "tool_status", tool |-> tool_type]
ToolResult(tool_type) == [type |-> "tool_result", tool |-> tool_type]
Status == [type |-> "status", tool |-> "none"]
Warning == [type |-> "warning", tool |-> "none"]
ErrorOutput == [type |-> "error", tool |-> "none"]

\* the tool-result turns of the console loops' "for ... in tool_results"
ResultTurns(l, results) ==
    [k \in 1..Len(results) |->
        ToolResultTurn(ToolRole(l), results[k][1], results[k][2], results[k][3])]

\* whether t holds a marker of a registered tool
ContainsMarker(ps, t) ==
    \E k \in 1..Len(ps), o \in 0..(Len(t) - 1) :
        ps[k].pattern.valid /\ MatchAt(ps[k].pattern, t, o).ok

NoTurn ==
    /\ loop = "none"
    /\ pc = "none"
    /\ conversation_history = <<>>
    /\ tool_call_count = 0
    /\ has_tool_calls = FALSE
    /\ next_call = 0
    /\ tool_results = <<>>
    /\ sent = <<>>
    /\ emitted = <<>>
    /\ model_calls = 0
    /\ batches = 0
    /\ all_marked = TRUE
    /\ odd = 0

NoEvent == [conn |-> "none", type |-> "none"]

\* no websocket has connected
NoSessions ==
    /\ active_connections = <<>>
    /\ handlers = <<>>
    /\ chat_session = {}
    /\ backend_content = <<>>
    /\ event = NoEvent
    /\ received = 0
    /\ marked = 0

Unset == "None"

\* memory_astra has been imported and nothing has called it
NoMemory ==
    /\ db_instance = Unset
    /\ collection_instance = Unset
    /\ db_lock = "free"
    /\ credentials = TRUE
    /\ coroutines = <<>>
    /\ memory_calls = 0

-----------------------------------------------------------------------------
\* Call extraction on its own: a registry is built by register, then texts
\* are extracted.

MaxPieces == 3

\* "[A" and "[S" are the literal prefixes of two markers
Pieces ==
    { <<"[A">>, <<"[S">>, <<"]">>, <<" ">>, <<"x">>,
      <<"[A", " ", "x", "]">>, <<"[S", "x", " ", "]">> }

\* texts that hold the placeholder's own text, whole or in two parts around
\* a marker
PlaceholderTexts ==
    { a \o Placeholder \o b :
        a \in {<<>>, <<"[S">>, <<"[S", "x">>, <<"[A", " ", "x", "]">>},
        b \in {<<>>, <<"]">>, <<"x", "]">>, <<"[A", " ", "x", "]">>} }
    \cup { <<"[#">> \o m \o <<"]">> :
              m \in {<<"[A", " ", "x", "]">>, <<"[S", "x", " ", "]">>} }

Texts ==
    { Concat(ps) : ps \in UNION { [1..n -> Pieces] : n \in 0..MaxPieces } }
    \cup PlaceholderTexts

ExtractNames == {"app", "search"}
ExtractPatterns ==
    { Pattern("[A", 1, TRUE, TRUE),       \* r'\[OPEN_APP:\s*([^\]]+)\]'
      Pattern("[S", 1, TRUE, TRUE),       \* r'\[SEARCH:\s*([^\]]+)\]'
      Pattern("[S", 0, TRUE, TRUE),       \* the shape of r'\[SYSINFO:\s*([^\]]*)\]'
      Pattern("[A", 1, FALSE, TRUE),      \* a pattern without a capture group
      Pattern("[S", 1, TRUE, FALSE) }     \* a pattern that does not compile
ExtractPriorities == {10, 20}

NotExtracted == <<"none">>

InitExtract ==
    /\ tools = <<>>
    /\ patterns = <<>>
    /\ priorities = <<>>
    /\ text = NotExtracted
    /\ tool_calls = <<>>
    /\ scans = <<>>
    /\ NoDispatch
    /\ NoTurn
    /\ NoSessions
    /\ NoMemory

\* tool_registry.register(...) at import time, before any extraction
Register ==
    /\ text = NotExtracted
    /\ \E name \in ExtractNames, function \in {SyncHandler, NotCallable},
          pattern \in ExtractPatterns, priority \in ExtractPriorities :
            register(name, function, pattern, priority)
    /\ UNCHANGED <<extraction, dispatch, turn, sessions, memory>>

\* tool_registry.extract_tool_calls(t).  The call keeps nothing from one call
\* to the next (tool_calls and processed_text are locals), so one call per
\* behaviour shows every call.
Extract ==
    /\ text = NotExtracted
    /\ \E t \in Texts :
         LET found == ExtractScans(patterns, priorities, t)
         IN  /\ text' = t
             /\ scans' = found
             /\ tool_calls' = CallsOf(found)
    /\ UNCHANGED <<registry, dispatch, turn, sessions, memory>>

NextExtract == Register \/ Extract

SpecExtract == InitExtract /\ [][NextExtract]_vars

-----------------------------------------------------------------------------
\* The Dispatcher on its own: one execute on the registry of tools/__init__.py

MaxArgLen == 4

ArgChars == {" ", "|", "x"}
Arguments == UNION { [1..n -> ArgChars] : n \in 0..MaxArgLen }

\* the registered names, and two tools of the repository that are not registered
ToolTypes == DOMAIN tool_registry.tools \cup {"browser", "memory"}

\* the handlers ts, each registered as a function of the other kind: register
\* takes any callable
OfOtherKind(ts) == [name \in DOMAIN ts |-> [ts[name] EXCEPT !.coroutine = ~@]]

InitExecute ==
    /\ tools \in {tool_registry.tools, OfOtherKind(tool_registry.tools)}
    /\ patterns = tool_registry.patterns
    /\ priorities = tool_registry.priorities
    /\ text = NotExtracted
    /\ tool_calls = <<>>
    /\ scans = <<>>
    /\ NoDispatch
    /\ NoTurn
    /\ NoSessions
    /\ NoMemory

\* await tool_registry.execute(tool_type, tool_argument).  execute keeps
\* nothing from one call to the next, so one call per behaviour shows every
\* call.
Execute ==
    /\ call = NoCall
    /\ \E tool_type \in ToolTypes, tool_argument \in Arguments \cup {None},
          behaviour \in Behaviours :
         LET r == execute(tools, tool_type, tool_argument, behaviour)
         IN  /\ call' = [tool_type |-> tool_type, tool_argument |-> tool_argument,
                         behaviour |-> behaviour]
             /\ result' = r.result
             /\ raised' = r.raised
             /\ invoked' = r.invoked
    /\ UNCHANGED <<registry, extraction, turn, sessions, memory>>

NextExecute == Execute

SpecExecute == InitExecute /\ [][NextExecute]_vars

-----------------------------------------------------------------------------
\* One turn of a turn loop: a user message, then model calls and tool
\* batches until the loop stops.  A step is what the loop does between two
\* waits for the outside (the user, the backend, a tool handler).

\* At most MaxOdd rare events in a turn: a response with two markers, a
\* handler that raises.
MaxOdd == 1

Plain    == <<"x">>
OneCall  == <<"[A", " ", "x", "]">>
TwoCalls == <<"[S", "x", "]", "[A", "x", "]">>
Responses == {Plain, OneCall, TwoCalls}
UserInputs == {<<"x">>, <<"[S", "x", "]">>}

\* the texts a loop can take for the model's response
ModelTexts == Responses \cup {ErrorText}

\* (a mutant: the calls of an earlier response, whatever the text)
ExtractedStale ==
    [t \in ModelTexts |->
        ExtractToolCalls(tool_registry.patterns, tool_registry.priorities, OneCall)]

\* tool_registry.extract_tool_calls(t) on the registry of tools/__init__.py,
\* which no loop changes, tabulated for the texts of the model
Extracted ==
    [t \in ModelTexts |->
        ExtractToolCalls(tool_registry.patterns, tool_registry.priorities, t)]

\* whether the response holds a marker of a registered tool
HoldsMarker == [t \in ModelTexts |-> ContainsMarker(tool_registry.patterns, t)]

InitTurn ==
    /\ tools = tool_registry.tools
    /\ patterns = tool_registry.patterns
    /\ priorities = tool_registry.priorities
    /\ text = NotExtracted
    /\ tool_calls = <<>>
    /\ scans = <<>>
    /\ NoDispatch
    /\ loop \in Loops
    /\ pc = "input"
    /\ conversation_history = <<SystemPrompt>>
    /\ tool_call_count = 0
    /\ has_tool_calls = FALSE
    /\ next_call = 0
    /\ tool_results = <<>>
    /\ sent = <<>>
    /\ emitted = <<>>
    /\ model_calls = 0
    /\ batches = 0
    /\ all_marked = TRUE
    /\ odd = 0
    /\ NoSessions
    /\ NoMemory

\* The loop has stopped: the notice when the ceiling was reached, and the
\* turn is over.
AfterLoop(count, output) ==
    /\ emitted' = output \o (IF ReachedCeiling(count) THEN <<Warning>> ELSE <<>>)
    /\ pc' = "done"

\* input() / websocket.receive_json() gave a user message: it is appended
\* to History.  openai_chatbot and api_server set the counter here and test
\* it; gemini_chatbot does so after its first model call.
UserMessage ==
    /\ pc = "input"
    /\ \E user_input \in UserInputs :
         conversation_history' =
             Append(conversation_history, Turn(UserRole(loop), user_input))
    /\ IF loop = "gemini_chatbot"
       THEN /\ pc' = "first_call"
            /\ UNCHANGED <<tool_call_count, has_tool_calls, emitted>>
       ELSE /\ tool_call_count' = 0
            /\ has_tool_calls' = (loop \notin ConsoleLoops)
            /\ IF WithinCeiling(0)
               THEN pc' = "call" /\ UNCHANGED emitted
               ELSE AfterLoop(0, emitted)
    /\ UNCHANGED <<memory, sessions, registry, extraction, dispatch, next_call, tool_results, sent,
                   model_calls, batches, all_marked, odd, loop>>

\* The loop has the response t: it is appended to History as the model's
\* turn; then tool_registry.extract_tool_calls(t) decides between a batch
\* and the end of the loop.  gemini_chatbot tests the ceiling first, and
\* extracts nothing once it is reached.
GotResponse(t) ==
    LET count == IF pc = "first_call" THEN 0 ELSE tool_call_count
        found == Extracted[t]
        output == Append(emitted, AiOutput(t))
    IN  /\ conversation_history' =
               Append(conversation_history, Turn(ModelRole(loop), t))
        /\ all_marked' = (all_marked /\ HoldsMarker[t])
        /\ tool_call_count' = count
        /\ IF loop = "gemini_chatbot" /\ ~WithinCeiling(count)
           THEN /\ AfterLoop(count, output)
                /\ has_tool_calls' = TRUE
                /\ UNCHANGED <<extraction, next_call, tool_results>>
           ELSE /\ text' = t
                /\ tool_calls' = found
                /\ UNCHANGED scans
                /\ tool_results' = <<>>
                /\ IF found = <<>>
                   THEN /\ has_tool_calls' = FALSE
                        /\ next_call' = 0
                        /\ AfterLoop(count, output)
                   ELSE /\ has_tool_calls' = TRUE
                        /\ next_call' = 1
                        /\ emitted' = output
                        /\ pc' = "execute"

\* send_to_gemini / send_to_openai with History.  The console loops' senders
\* catch a failure of the API and return an error text, which the loop takes
\* for the response; in api_server the failure leaves the turn and
\* common_websocket_handler reports it.
ModelCall ==
    /\ pc \in {"first_call", "call"}
    /\ sent' = LlmMessages(loop, conversation_history)
    /\ model_calls' = model_calls + 1
    /\ \/ \E response \in Responses :
            /\ response = TwoCalls => odd < MaxOdd
            /\ odd' = IF response = TwoCalls THEN odd + 1 ELSE odd
            /\ GotResponse(response)
       \/ /\ loop \in ConsoleLoops
          /\ GotResponse(ErrorText)
          /\ UNCHANGED odd
       \/ /\ loop \notin ConsoleLoops
          /\ pc' = "error"
          /\ emitted' = Append(emitted, ErrorOutput)
          /\ UNCHANGED <<conversation_history, extraction, tool_call_count,
                         has_tool_calls, next_call, tool_results, all_marked, odd>>
    /\ UNCHANGED <<memory, sessions, registry, dispatch, batches, loop>>

\* (a mutant: the batch is over and the counter stays as it was)
BatchDoneCountLost(output) ==
    /\ UNCHANGED tool_call_count
    /\ batches' = batches + 1
    /\ pc' = "call"
    /\ emitted' = output

\* The batch is over: the counter goes up and the loop tests it.
\* gemini_chatbot calls the model before it tests.
BatchDone(output) ==
    /\ tool_call_count' = tool_call_count + 1
    /\ batches' = batches + 1
    /\ IF loop = "gemini_chatbot" \/ WithinCeiling(tool_call_count + 1)
       THEN pc' = "call" /\ emitted' = output
       ELSE AfterLoop(tool_call_count + 1, output)

\* await tool_registry.execute(tool_type, tool_value) of the call at
\* next_call.  api_server appends the result to History at once; the console
\* loops keep it in tool_results and append the batch's results after its
\* last call.  An exception out of execute ends the turn.
ExecCall ==
    /\ pc = "execute"
    /\ \E behaviour \in {"returns", "raises"} :
         LET tool_type == tool_calls[next_call][1]
             tool_value == tool_calls[next_call][2]
             r == execute(tools, tool_type, tool_value, behaviour)
             last == next_call = Len(tool_calls)
             results == Append(tool_results, <<tool_type, tool_value, r.result>>)
             output == emitted \o
                         (IF loop \in ConsoleLoops THEN <<ToolStatus(tool_type)>>
                          ELSE <<ToolStatus(tool_type), ToolResult(tool_type)>>)
         IN  /\ behaviour = "raises" => odd < MaxOdd
             /\ odd' = IF behaviour = "raises" THEN odd + 1 ELSE odd
             /\ call' = [tool_type |-> tool_type, tool_argument |-> tool_value,
                         behaviour |-> behaviour]
             /\ result' = r.result
             /\ raised' = r.raised
             /\ invoked' = r.invoked
             /\ IF r.raised
                THEN /\ pc' = "error"
                     /\ emitted' = Append(emitted, ErrorOutput)
                     /\ UNCHANGED <<conversation_history, tool_call_count, batches,
                                    next_call, tool_results>>
                ELSE /\ conversation_history' =
                          IF loop \notin ConsoleLoops
                          THEN Append(conversation_history,
                                      ToolResultTurn(ToolRole(loop), tool_type,
                                                     tool_value, r.result))
                          ELSE IF last
                          THEN conversation_history \o ResultTurns(loop, results)
                          ELSE conversation_history
                     /\ tool_results' = IF loop \in ConsoleLoops THEN results
                                        ELSE tool_results
                     /\ IF last
                        THEN /\ BatchDone(IF loop \in ConsoleLoops THEN output
                                          ELSE Append(output, Status))
                             /\ UNCHANGED next_call
                        ELSE /\ next_call' = next_call + 1
                             /\ emitted' = output
                             /\ UNCHANGED <<pc, tool_call_count, batches>>
    /\ UNCHANGED <<memory, sessions, registry, extraction, has_tool_calls, sent, model_calls,
                   all_marked, loop>>

\* (a mutant: the exception is swallowed and the loop goes on to the model)
BatchExceptionSwallowed ==
    /\ pc = "execute"
    /\ call' = [tool_type |-> tool_calls[next_call][1],
                tool_argument |-> tool_calls[next_call][2],
                behaviour |-> "escapes"]
    /\ result' = NoText
    /\ raised' = TRUE
    /\ invoked' = <<>>
    /\ pc' = "call"
    /\ UNCHANGED <<memory, sessions, registry, extraction, conversation_history, tool_call_count,
                   has_tool_calls, next_call, tool_results, sent, emitted,
                   model_calls, batches, all_marked, odd, loop>>

\* An Exception leaves the batch at the call at next_call, out of the loop's
\* own statements (websocket.send_json on a closed connection, result[:100]
\* of a result that is no text): "except Exception" of conversation_loop or
\* of common_websocket_handler reports it and the loop is left.
BatchException ==
    /\ pc = "execute"
    /\ call' = [tool_type |-> tool_calls[next_call][1],
                tool_argument |-> tool_calls[next_call][2],
                behaviour |-> "escapes"]
    /\ result' = NoText
    /\ raised' = TRUE
    /\ invoked' = <<>>
    /\ pc' = "error"
    /\ emitted' = Append(emitted, ErrorOutput)
    /\ UNCHANGED <<memory, sessions, registry, extraction, conversation_history, tool_call_count,
                   has_tool_calls, next_call, tool_results, sent, model_calls,
                   batches, all_marked, odd, loop>>

NextTurn == UserMessage \/ ModelCall \/ ExecCall \/ BatchException

SpecTurn == InitTurn /\ [][NextTurn]_vars

\* Each wait ends: the user sends the message, the backend answers, the
\* handler returns or raises.
FairSpecTurn == SpecTurn /\ WF_vars(NextTurn)

-----------------------------------------------------------------------------
\* The sessions of api_server: each websocket runs common_websocket_handler
\* as a coroutine of one event loop.  A handler gives way to the others
\* where it awaits: websocket.receive_json(), websocket.send_json(...),
\* tool_registry.execute(...).

MaxReceived == 2
MaxMarked == 2

\* the websockets that connect; uuid4 gives each its own connection_id
Connections == {"c1", "c2"}

\* the endpoints' default_model_type, and what data.get("model") may name
ModelTypes == {"openai", "gemini"}
NoModel == "none"

\* (a mutant: the turn is put in front)
insert(history, t) == <<t>> \o history

\* history.append(t)
append(history, t) == Append(history, t)

\* a turn of History, marked with the connection whose handler made it
OfConnection(c, t) ==
    [conn |-> c, role |-> t.role, text |-> t.text, tool |-> t.tool,
     value |-> t.value, result |-> t.result]

Closed == [pc |-> "closed", default_model_type |-> NoModel, model_to_use |-> NoModel,
           tool_call_count |-> 0, tool_calls |-> <<>>, started |-> 0,
           finished |-> 0, running |-> 0]

InitSessions ==
    /\ tools = tool_registry.tools
    /\ patterns = tool_registry.patterns
    /\ priorities = tool_registry.priorities
    /\ text = NotExtracted
    /\ tool_calls = <<>>
    /\ scans = <<>>
    /\ NoDispatch
    /\ NoTurn
    /\ active_connections = <<>>
    /\ handlers = [c \in Connections |-> [Closed EXCEPT !.pc = "init"]]
    /\ chat_session = {}
    /\ backend_content = [c \in Connections |-> {}]
    /\ event = NoEvent
    /\ received = 0
    /\ marked = 0
    /\ NoMemory

\* (a mutant: a message is taken at any await of the handler)
AtAnyAwait(h) == h.pc \in {"receive", "model", "tool", "running", "abandoned"}

\* The handler takes a message where it awaits websocket.receive_json(), at
\* the top of its "while True"; it comes back there when the branch of the
\* message before, awaited to its end, has returned.
AtReceive(h) == h.pc = "receive"

\* active_connections[connection_id] = entry
Stored(connections, c, entry) ==
    [d \in DOMAIN connections \cup {c} |-> IF d = c THEN entry ELSE connections[d]]

\* (a mutant: the handler ends and the entry stays)
Forgotten(connections, c) == connections

\* del active_connections[connection_id]
Deleted(connections, c) ==
    [d \in DOMAIN connections \ {c} |-> connections[d]]

\* handle_chat_start_internal and handle_load_chat_internal: the model_type
\* of the entry is the message's "model" when it names another model than
\* the endpoint's, and the endpoint's otherwise
EntryModelType(data_model, default_model_type) ==
    IF data_model # NoModel /\ data_model # default_model_type
    THEN data_model
    ELSE default_model_type

\* handle_chat_start_internal(connection_id, data, default_model_type)
handle_chat_start_internal(c, data_model, default_model_type) ==
    active_connections' =
        Stored(active_connections, c,
               [history |-> <<OfConnection(c, SystemPrompt)>>,
                model_type |-> EntryModelType(data_model, default_model_type)])

\* websocket.accept(), then handle_chat_start_internal(connection_id, {}, ...)
Connect(c) ==
    /\ handlers[c].pc = "init"
    /\ \E default_model_type \in ModelTypes :
         /\ handle_chat_start_internal(c, NoModel, default_model_type)
         /\ handlers' = [handlers EXCEPT ![c].pc = "receive",
                                       ![c].default_model_type = default_model_type]
    /\ event' = [conn |-> c, type |-> "connect"]
    /\ UNCHANGED <<memory, registry, extraction, dispatch, turn, chat_session,
                   backend_content, received, marked>>

\* a "start_chat" message
StartChat(c) ==
    /\ AtReceive(handlers[c])
    /\ received < MaxReceived
    /\ \E data_model \in ModelTypes \cup {NoModel} :
         handle_chat_start_internal(c, data_model, handlers[c].default_model_type)
    /\ received' = received + 1
    /\ event' = [conn |-> c, type |-> "start_chat"]
    /\ UNCHANGED <<memory, registry, extraction, dispatch, turn, handlers, chat_session,
                   backend_content, marked>>

\* data.get("history", []) of a "load_chat" message: nothing, a conversation
\* without a system turn, a conversation with one
LoadedTurn(c) == OfConnection(c, Turn("user", <<"x">>))
Histories(c) ==
    {<<>>, <<LoadedTurn(c)>>, <<OfConnection(c, SystemPrompt), LoadedTurn(c)>>}

\* a "load_chat" message: handle_load_chat_internal
LoadChat(c) ==
    /\ AtReceive(handlers[c])
    /\ received < MaxReceived
    /\ \E data_model \in ModelTypes \cup {NoModel}, chat_history \in Histories(c) :
         IF chat_history = <<>>
         THEN UNCHANGED active_connections
         ELSE active_connections' =
                Stored(active_connections, c,
                       [history |->
                            IF \E k \in 1..Len(chat_history) :
                                   chat_history[k].role = "system"
                            THEN chat_history
                            ELSE <<OfConnection(c, SystemPrompt)>> \o chat_history,
                        model_type |->
                            EntryModelType(data_model, handlers[c].default_model_type)])
    /\ received' = received + 1
    /\ event' = [conn |-> c, type |-> "load_chat"]
    /\ UNCHANGED <<memory, registry, extraction, dispatch, turn, handlers, chat_session,
                   backend_content, marked>>

\* a message of any other type: an error goes to the client
UnknownMessage(c) ==
    /\ AtReceive(handlers[c])
    /\ received < MaxReceived
    /\ received' = received + 1
    /\ event' = [conn |-> c, type |-> "unknown"]
    /\ UNCHANGED <<memory, registry, extraction, dispatch, turn, active_connections, handlers,
                   chat_session, backend_content, marked>>

\* current_turn_model_type of process_user_message_internal
CurrentTurnModelType(message_model_override, default_model_type, model_type) ==
    IF message_model_override # NoModel /\ message_model_override # default_model_type
    THEN message_model_override
    ELSE IF model_type # default_model_type
    THEN model_type
    ELSE default_model_type

\* a "user_message" message: process_user_message_internal appends the user's
\* turn, and process_message_with_model_internal enters its loop
ReceiveUserMessage(c) ==
    /\ AtReceive(handlers[c])
    /\ received < MaxReceived
    /\ \E message_model_override \in ModelTypes \cup {NoModel} :
         LET entry == active_connections[c]
             default_model_type == handlers[c].default_model_type
             overridden == /\ message_model_override # NoModel
                           /\ message_model_override # default_model_type
             current == CurrentTurnModelType(message_model_override,
                                             default_model_type, entry.model_type)
             user == Turn(IF current = "openai" THEN "user" ELSE "human", <<"x">>)
         IN  /\ active_connections' =
                   [active_connections EXCEPT
                       ![c].history = append(@, OfConnection(c, user)),
                       ![c].model_type = IF overridden THEN current ELSE @]
             /\ handlers' = [handlers EXCEPT
                               ![c].model_to_use = current,
                               ![c].tool_call_count = 0,
                               ![c].tool_calls = <<>>,
                               ![c].started = 0,
                               ![c].finished = 0,
                               ![c].pc = IF WithinCeiling(0) THEN "model" ELSE "receive"]
             /\ event' = [conn |-> c, type |-> "user_message",
                          model |-> message_model_override]
    /\ received' = received + 1
    /\ UNCHANGED <<memory, registry, extraction, dispatch, turn, chat_session,
                   backend_content, marked>>

\* the connections whose turns a history holds
Owners(history) == {history[k].conn : k \in 1..Len(history)}

\* (a mutant: a call is started whether or not the one before has returned)
StartedOrNot(h) == TRUE

\* the for loop of process_*_tool_calls_for_websocket starts a call only
\* when the one before has returned
NotStarted(h) == h.started = h.finished

\* The model call of process_message_with_model_internal returned t: t is
\* appended as the model's turn and extract_tool_calls(t) decides between a
\* batch and the end of the loop.  send_to_openai sends the messages it is
\* given; send_to_gemini sends its payload through the chat_session of its
\* module, which keeps what it was sent before, whoever sent it.
SessionModelCall(c) ==
    /\ handlers[c].pc = "model"
    /\ \E t \in Responses :
         LET h == handlers[c]
             history == active_connections[c].history
             role == IF h.model_to_use = "openai" THEN "assistant" ELSE "model"
             found == Extracted[t]
             content == IF h.model_to_use = "openai"
                        THEN Owners(history)
                        ELSE chat_session \cup Owners(history)
         IN  /\ found # <<>> => marked < MaxMarked
             /\ marked' = IF found # <<>> THEN marked + 1 ELSE marked
             /\ backend_content' = [backend_content EXCEPT ![c] = content]
             /\ chat_session' = IF h.model_to_use = "openai" THEN chat_session
                                ELSE content
             /\ active_connections' =
                   [active_connections EXCEPT
                       ![c].history = append(@, OfConnection(c, Turn(role, t)))]
             /\ handlers' = [handlers EXCEPT
                               ![c].tool_calls = found,
                               ![c].started = 0,
                               ![c].finished = 0,
                               ![c].pc = IF found = <<>> THEN "receive" ELSE "tool"]
    /\ event' = [conn |-> c, type |-> "model"]
    /\ UNCHANGED <<memory, registry, extraction, dispatch, turn, received>>

\* websocket.send_json(tool_status), then tool_registry.execute(tool_type,
\* tool_value) is awaited
ToolDispatch(c) ==
    /\ handlers[c].pc \in {"tool", "running"}
    /\ NotStarted(handlers[c])
    /\ handlers[c].started < Len(handlers[c].tool_calls)
    /\ handlers' = [handlers EXCEPT ![c].started = @ + 1,
                                  ![c].running = @ + 1,
                                  ![c].pc = "running"]
    /\ event' = [conn |-> c, type |-> "tool_status"]
    /\ UNCHANGED <<memory, registry, extraction, dispatch, turn, active_connections,
                   chat_session, backend_content, received, marked>>

\* execute returned: the result goes to the client and to History; after the
\* last call of the batch the counter goes up and the loop tests it
ToolReturn(c) ==
    /\ handlers[c].pc = "running"
    /\ handlers[c].running > 0
    /\ LET h == handlers[c]
           tool_type == h.tool_calls[h.finished + 1][1]
           tool_value == h.tool_calls[h.finished + 1][2]
           r == execute(tools, tool_type, tool_value, "returns")
           role == IF h.model_to_use = "openai" THEN "system" ELSE "tool"
           last == h.finished + 1 = Len(h.tool_calls)
       IN  /\ active_connections' =
                 [active_connections EXCEPT
                     ![c].history =
                         append(@, OfConnection(c, ToolResultTurn(role, tool_type,
                                                    tool_value, r.result)))]
           /\ handlers' = [handlers EXCEPT
                             ![c].finished = @ + 1,
                             ![c].running = @ - 1,
                             ![c].tool_call_count = IF last THEN @ + 1 ELSE @,
                             ![c].pc = IF ~last THEN "tool"
                                       ELSE IF WithinCeiling(h.tool_call_count + 1)
                                       THEN "model"
                                       ELSE "receive"]
    /\ event' = [conn |-> c, type |-> "tool_result"]
    /\ UNCHANGED <<memory, registry, extraction, dispatch, turn, chat_session,
                   backend_content, received, marked>>

\* The handler is left at a websocket operation or at the model call:
\* WebSocketDisconnect out of receive_json or send_json when the client has
\* gone, or an Exception out of the model call or of a batch.  "finally"
\* deletes the entry.  A client that goes while the model is called is
\* noticed at the first send_json after the call: the backend has been sent
\* the messages, and no turn is appended.
Leave(c) ==
    /\ handlers[c].pc \in {"receive", "model", "tool", "running", "abandoned"}
    /\ \E type \in {"disconnect", "error"} :
         /\ type = "error" => handlers[c].pc \in {"model", "running", "abandoned"}
         /\ type = "disconnect" => handlers[c].pc \in {"receive", "model", "tool"}
         /\ event' = [conn |-> c, type |-> type]
         /\ IF type = "disconnect" /\ handlers[c].pc = "model"
            THEN LET content ==
                       IF handlers[c].model_to_use = "openai"
                       THEN Owners(active_connections[c].history)
                       ELSE chat_session \cup Owners(active_connections[c].history)
                 IN  /\ backend_content' = [backend_content EXCEPT ![c] = content]
                     /\ chat_session' = IF handlers[c].model_to_use = "openai"
                                        THEN chat_session
                                        ELSE content
            ELSE UNCHANGED <<chat_session, backend_content>>
    /\ active_connections' = Deleted(active_connections, c)
    /\ handlers' = [handlers EXCEPT ![c] = Closed]
    /\ UNCHANGED <<memory, registry, extraction, dispatch, turn, received, marked>>

\* The client goes while the handler awaits tool_registry.execute: nothing
\* stops the execution, and the handler stays where it is.
ClientGoes(c) ==
    /\ handlers[c].pc = "running"
    /\ handlers' = [handlers EXCEPT ![c].pc = "abandoned"]
    /\ event' = [conn |-> c, type |-> "client_gone"]
    /\ UNCHANGED <<memory, registry, extraction, dispatch, turn, active_connections,
                   chat_session, backend_content, received, marked>>

\* execute returned after the client went: send_json of the tool_result
\* raises before history.append is reached, and "finally" deletes the entry
ToolReturnToNoOne(c) ==
    /\ handlers[c].pc = "abandoned"
    /\ handlers[c].running > 0
    /\ active_connections' = Deleted(active_connections, c)
    /\ handlers' = [handlers EXCEPT ![c] = Closed]
    /\ event' = [conn |-> c, type |-> "tool_discarded"]
    /\ UNCHANGED <<memory, registry, extraction, dispatch, turn, chat_session,
                   backend_content, received, marked>>

NextSessions ==
    \E c \in Connections :
        \/ Connect(c)
        \/ StartChat(c)
        \/ LoadChat(c)
        \/ UnknownMessage(c)
        \/ ReceiveUserMessage(c)
        \/ SessionModelCall(c)
        \/ ToolDispatch(c)
        \/ ToolReturn(c)
        \/ ClientGoes(c)
        \/ ToolReturnToNoOne(c)
        \/ Leave(c)

SpecSessions == InitSessions /\ [][NextSessions]_vars

-----------------------------------------------------------------------------
\* The memory tools of tools/memory_astra.py: store_memory and query_memory
\* are coroutines of one event loop and share db_instance,
\* collection_instance and db_lock.  A coroutine gives way to the others
\* where it awaits: at db_lock when it is held, and at run_in_executor.

MaxCalls == 4

Coroutines == {"k1", "k2", "k3"}
Operations == {"store_memory", "query_memory"}

Idle == [pc |-> "idle", op |-> "none", outcome |-> "none"]

InitMemory ==
    /\ tools = tool_registry.tools
    /\ patterns = tool_registry.patterns
    /\ priorities = tool_registry.priorities
    /\ text = NotExtracted
    /\ tool_calls = <<>>
    /\ scans = <<>>
    /\ NoDispatch
    /\ NoTurn
    /\ NoSessions
    /\ db_instance = Unset
    /\ collection_instance = Unset
    /\ db_lock = "free"
    /\ credentials \in BOOLEAN
    /\ coroutines = [k \in Coroutines |-> Idle]
    /\ memory_calls = 0

\* (a mutant: no lock, every coroutine goes on)
NeverLocked(lock) == TRUE

\* db_lock is not held: "async with db_lock" goes on without giving way
Unlocked(lock) == lock = "free"

\* The body of "async with db_lock" up to its first await, for coroutine k
\* that has the lock: the second test of collection_instance, the test of
\* the credentials, and the start of the work that is still to do.
Locked(k, started) ==
    IF collection_instance # Unset
    THEN /\ coroutines' = [started EXCEPT ![k].pc = "returned",
                                          ![k].outcome = "collection"]
         /\ db_lock' = "free"
    ELSE IF ~credentials
    THEN /\ coroutines' = [started EXCEPT ![k].pc = "returned",
                                          ![k].outcome = "None"]
         /\ db_lock' = "free"
    ELSE /\ coroutines' =
              [started EXCEPT ![k].pc = IF db_instance = Unset THEN "AstraDB"
                                        ELSE "create_collection"]
         /\ db_lock' = k

\* store_memory(text) or query_memory(text): a blank text is refused;
\* otherwise _initialize_astra_db_resources is awaited, which returns
\* collection_instance when it is set and goes to db_lock when it is not.
Call(k) ==
    /\ coroutines[k].pc \in {"idle", "returned"}
    /\ memory_calls < MaxCalls
    /\ memory_calls' = memory_calls + 1
    /\ \E op \in Operations, blank \in BOOLEAN :
         LET started == [coroutines EXCEPT ![k] = [pc |-> "called", op |-> op,
                                                   outcome |-> "none"]]
         IN  IF blank
             THEN /\ coroutines' = [started EXCEPT ![k].pc = "returned",
                                                   ![k].outcome = "Error: empty"]
                  /\ UNCHANGED db_lock
             ELSE IF collection_instance # Unset
             THEN /\ coroutines' = [started EXCEPT ![k].pc = "returned",
                                                   ![k].outcome = "collection"]
                  /\ UNCHANGED db_lock
             ELSE IF Unlocked(db_lock)
             THEN Locked(k, started)
             ELSE /\ coroutines' = [started EXCEPT ![k].pc = "db_lock"]
                  /\ UNCHANGED db_lock
    /\ UNCHANGED <<registry, extraction, dispatch, turn, sessions, db_instance,
                   collection_instance, credentials>>

\* db_lock was released and coroutine k, which waited for it, has it
Acquire(k) ==
    /\ coroutines[k].pc = "db_lock"
    /\ Unlocked(db_lock)
    /\ Locked(k, coroutines)
    /\ UNCHANGED <<registry, extraction, dispatch, turn, sessions, db_instance,
                   collection_instance, credentials, memory_calls>>

\* "except Exception": both globals are reset, None is returned and the
\* lock is released
Failed(k) ==
    /\ db_instance' = Unset
    /\ collection_instance' = Unset
    /\ coroutines' = [coroutines EXCEPT ![k].pc = "returned", ![k].outcome = "None"]
    /\ db_lock' = "free"

\* run_in_executor of AstraDB(...) has ended: db_instance is set, and
\* create_collection is sent to the executor; or it raised
Connected(k) ==
    /\ coroutines[k].pc = "AstraDB"
    /\ \/ /\ db_instance' = "AstraDB"
          /\ coroutines' = [coroutines EXCEPT ![k].pc = "create_collection"]
          /\ UNCHANGED <<collection_instance, db_lock>>
       \/ Failed(k)
    /\ UNCHANGED <<registry, extraction, dispatch, turn, sessions, credentials,
                   memory_calls>>

\* run_in_executor of db_instance.create_collection(...) has ended:
\* collection_instance is set and returned; or it raised
Created(k) ==
    /\ coroutines[k].pc = "create_collection"
    /\ \/ /\ collection_instance' = "AstraDBCollection"
          /\ coroutines' = [coroutines EXCEPT ![k].pc = "returned",
                                              ![k].outcome = "collection"]
          /\ db_lock' = "free"
          /\ UNCHANGED db_instance
       \/ Failed(k)
    /\ UNCHANGED <<registry, extraction, dispatch, turn, sessions, credentials,
                   memory_calls>>

NextMemory ==
    \E k \in Coroutines : Call(k) \/ Acquire(k) \/ Connected(k) \/ Created(k)

SpecMemory == InitMemory /\ [][NextMemory]_vars

\* C1: in what extract_tool_calls returns, every call of a tool with a lower
\* priority number stands before every call of a tool with a higher priority
\* number, wherever their markers stand in the text.
C1_PriorityOrder ==
    \A i, j \in 1..Len(tool_calls) :
        priorities[tool_calls[i][1]] < priorities[tool_calls[j][1]] => i < j

\* "[SEARCH: x ][OPEN_APP: x]" with app=10, search=20: the app call is first
C1_Witness ==
    /\ text = <<"[S", "x", " ", "]", "[A", " ", "x", "]">>
    /\ "app" \in DOMAIN priorities /\ "search" \in DOMAIN priorities
    /\ priorities["app"] = 10 /\ priorities["search"] = 20
    /\ tool_calls = << <<"app", <<"x">> >>, <<"search", <<"x">> >> >>

-----------------------------------------------------------------------------
\* Claims about ToolRegistry.execute (SpecExecute)

\* a is s without its leading and trailing whitespace
IsTrimOf(a, s) ==
    \E i \in 1..(Len(s) + 1), j \in 0..Len(s) :
        /\ a = SubSeq(s, i, j)
        /\ \A k \in 1..(i - 1) : s[k] = " "
        /\ \A k \in (j + 1)..Len(s) : s[k] = " "
        /\ i <= j => s[i] # " " /\ s[j] # " "

\* k is the place of the first "|" of s
FirstBar(s, k) == k \in 1..Len(s) /\ s[k] = "|" /\ \A l \in 1..(k - 1) : s[l] # "|"

Executed == call # NoCall
RegisteredCall == Executed /\ call.tool_type \in DOMAIN tool_registry.tools
SingleArgumentCall == RegisteredCall /\ call.tool_type \notin DualArgumentTools
HandlerFailed == call.behaviour \in {"raises", "times out"} /\ invoked # <<>>

\* C4: execute does not raise for a registered tool whose handler fails, in
\* whichever way (a timeout included): it returns the error text that names
\* the tool.
C4_HandlerFailureIsText ==
    RegisteredCall /\ HandlerFailed =>
        /\ ~raised
        /\ result.kind = "Error: An unexpected error occurred"
        /\ result.tool = call.tool_type

C4_Witness ==
    /\ call.tool_type = "fs_write" /\ call.behaviour = "times out"
    /\ Len(invoked) = 1
    /\ ~raised /\ result = UnexpectedError("fs_write")

\* C6: for fs_write and fs_find, an absent argument, an argument without "|"
\* or one whose first field is empty once trimmed gives a validation-error
\* text, and the handler is not invoked.
C6_DualValidation ==
    /\ Executed
    /\ call.tool_type \in DualArgumentTools
    /\ \/ call.tool_argument = None
       \/ \A k \in 1..Len(call.tool_argument) : call.tool_argument[k] # "|"
       \/ \E k \in 1..Len(call.tool_argument) :
              /\ FirstBar(call.tool_argument, k)
              /\ \A l \in 1..(k - 1) : call.tool_argument[l] = " "
    => /\ invoked = <<>>
       /\ ~raised
       /\ result.tool = call.tool_type
       /\ result.kind \in {"Error: Invalid arguments",
                           "Error: Path/start_path argument cannot be empty"}

\* "[FS_WRITE: | x]": the path is empty
C6_Witness ==
    /\ call.tool_type = "fs_write" /\ call.tool_argument = <<" ", "|", " ", "x">>
    /\ invoked = <<>>
    /\ result = EmptyPath("fs_write")

\* C7: for fs_write and fs_find, an argument with a "|" and a first field
\* that is not blank invokes the handler exactly once, with the trimmed text
\* before the first "|" and the trimmed text after it, whatever that holds.
C7_DualDispatch ==
    \A k \in 1..Len(call.tool_argument) :
        /\ Executed
        /\ call.tool_type \in DualArgumentTools
        /\ call.tool_argument # None
        /\ FirstBar(call.tool_argument, k)
        /\ \E l \in 1..(k - 1) : call.tool_argument[l] # " "
        => /\ Len(invoked) = 1
           /\ invoked[1].tool = call.tool_type
           /\ Len(invoked[1].args) = 2
           /\ IsTrimOf(invoked[1].args[1], SubSeq(call.tool_argument, 1, k - 1))
           /\ IsTrimOf(invoked[1].args[2],
                       SubSeq(call.tool_argument, k + 1, Len(call.tool_argument)))

\* "x||x": the second field keeps the second "|"
C7_Witness ==
    /\ call.tool_type = "fs_find" /\ call.tool_argument = <<"x", "|", "|", "x">>
    /\ invoked = <<[tool |-> "fs_find", args |-> << <<"x">>, <<"|", "x">> >>]>>

\* C8: execute with a name that is not registered returns the "Unknown tool"
\* text, raises nothing, invokes no handler and leaves the registry as it was.
C8_UnknownTool ==
    Executed /\ call.tool_type \notin DOMAIN tool_registry.tools =>
        /\ result.kind = "Unknown tool type" /\ result.tool = call.tool_type
        /\ ~raised
        /\ invoked = <<>>
        /\ tools \in {tool_registry.tools, OfOtherKind(tool_registry.tools)}
        /\ call.tool_type \notin DOMAIN tools
        /\ patterns = tool_registry.patterns
        /\ priorities = tool_registry.priorities

C8_Witness ==
    /\ call.tool_type = "browser" /\ call.tool_argument = <<"x">>
    /\ result = UnknownToolType("browser")
    /\ invoked = <<>>

\* C9: sysinfo with an empty or absent argument invokes its handler with
\* "basic"; any other single-argument tool with an absent argument gets a
\* validation-error text and its handler is not invoked.
C9_SingleDefaults ==
    /\ Executed /\ call.tool_type = "sysinfo" /\ call.tool_argument \in {None, <<>>}
       => invoked = <<[tool |-> "sysinfo", args |-> <<Basic>>]>>
    /\ SingleArgumentCall /\ call.tool_type # "sysinfo" /\ call.tool_argument = None
       => /\ invoked = <<>>
          /\ ~raised
          /\ result = MissingArgument(call.tool_type)

C9_Witness ==
    /\ call.tool_type = "sysinfo" /\ call.tool_argument = None
    /\ call.behaviour = "returns"
    /\ result = HandlerText("sysinfo", <<Basic>>)

\* the sysinfo default of C9 aside
C10_Passed ==
    /\ SingleArgumentCall
    /\ call.tool_argument # None
    /\ ~(call.tool_type = "sysinfo" /\ call.tool_argument = <<>>)

\* C10 as claimed: the handler of a single-argument tool receives the
\* argument passed to execute trimmed of leading and trailing whitespace.
C10_HandlerGetsTrimmed ==
    C10_Passed =>
        /\ Len(invoked) = 1
        /\ Len(invoked[1].args) = 1
        /\ IsTrimOf(invoked[1].args[1], call.tool_argument)

\* C10 as amended: the handler of a single-argument tool receives the
\* argument exactly as it was passed to execute, whitespace included.
C10_HandlerGetsRaw ==
    C10_Passed =>
        /\ Len(invoked) = 1
        /\ invoked[1] = [tool |-> call.tool_type, args |-> <<call.tool_argument>>]

C10_Witness ==
    /\ call.tool_type = "app" /\ call.tool_argument = <<" ", "x", " ">>
    /\ invoked = <<[tool |-> "app", args |-> << <<" ", "x", " ">> >>]>>

-----------------------------------------------------------------------------
\* Claims about the turn loops (SpecTurn, FairSpecTurn)

Count(seq, x) == Cardinality({k \in 1..Len(seq) : seq[k] = x})

\* C2: in each of the three loops, a turn whose model responses all hold a
\* marker runs exactly MAX_CONSECUTIVE_TOOL_CALLS batches, never more on the
\* way, then stops, and gives the system notice exactly once.
C2_CeilingEnforced ==
    /\ batches <= MAX_CONSECUTIVE_TOOL_CALLS
    /\ pc = "done" /\ all_marked =>
        /\ batches = MAX_CONSECUTIVE_TOOL_CALLS
        /\ tool_call_count = MAX_CONSECUTIVE_TOOL_CALLS
        /\ Count(emitted, Warning) = 1

C2_Witness ==
    /\ loop = "openai_chatbot"
    /\ pc = "done" /\ all_marked
    /\ batches = MAX_CONSECUTIVE_TOOL_CALLS
    /\ emitted[Len(emitted)] = Warning

\* C3: every turn ends, whatever the model answers, after at most
\* MAX_CONSECUTIVE_TOOL_CALLS batches and one model call more than that
\* ("error" is the end of a turn that an exception left: an api_server model
\* call that raised, a batch that raised).
C3_TurnTerminates ==
    /\ [](batches <= MAX_CONSECUTIVE_TOOL_CALLS
          /\ model_calls <= MAX_CONSECUTIVE_TOOL_CALLS + 1)
    /\ <>(pc \in {"done", "error"})

\* gemini_chatbot at the ceiling: 15 batches and the 16th model call
C3_Witness ==
    /\ loop = "gemini_chatbot"
    /\ pc = "done"
    /\ batches = MAX_CONSECUTIVE_TOOL_CALLS
    /\ model_calls = MAX_CONSECUTIVE_TOOL_CALLS + 1

IsErrorTurn(t) == t.result.kind = "Error: An unexpected error occurred"

\* where the result of the last executed call stands: in the console loops,
\* in tool_results until the batch is over, then in History; in api_server,
\* in History at once
ResultsOfLastCall ==
    IF loop \in ConsoleLoops /\ pc = "execute" /\ next_call > 1
    THEN ResultTurns(loop, tool_results)
    ELSE conversation_history

\* the batch limit stopped a loop that does not call the model after its
\* last batch
StoppedOnResults ==
    loop # "gemini_chatbot" /\ batches = MAX_CONSECUTIVE_TOOL_CALLS

\* the error turns of History were all in a History sent to the model
ErrorTurnsSent ==
    \A k \in 1..Len(conversation_history) :
        IsErrorTurn(conversation_history[k]) =>
            /\ k <= Len(sent)
            /\ sent[k].result = conversation_history[k].result

\* C5 as claimed: a handler that raises in a batch does not end the turn; its
\* error text, which names the tool, becomes a tool-result turn of History,
\* and by the end of the turn the loop has called the model with a History
\* that holds that turn.
C5_ErrorTurnGoesToModel ==
    /\ Executed /\ call.behaviour = "raises" =>
        /\ ~raised
        /\ result = UnexpectedError(call.tool_type)
        /\ \E k \in 1..Len(ResultsOfLastCall) :
               /\ IsErrorTurn(ResultsOfLastCall[k])
               /\ ResultsOfLastCall[k].tool = call.tool_type
    /\ pc = "done" => ErrorTurnsSent

\* what does hold: the error turn reaches the model unless the ceiling
\* stopped openai_chatbot or api_server on the batch's results
C5_ErrorTurnGoesToModelBelowCeiling ==
    /\ Executed /\ call.behaviour = "raises" =>
        /\ ~raised
        /\ result = UnexpectedError(call.tool_type)
        /\ \E k \in 1..Len(ResultsOfLastCall) :
               /\ IsErrorTurn(ResultsOfLastCall[k])
               /\ ResultsOfLastCall[k].tool = call.tool_type
    /\ pc = "done" /\ ~StoppedOnResults => ErrorTurnsSent

-----------------------------------------------------------------------------
\* Claims about extract_tool_calls's working copy (SpecExtract)

\* place p of scan.before stands in a match of the scan
InMatch(scan, p) ==
    \E m \in 1..Len(scan.matches) :
        scan.matches[m].start < p /\ p <= scan.matches[m].end

\* the placeholder's text stands at places p and p + 1 of scan.before,
\* outside the matches
PlaceholderAt(scan, p) ==
    /\ p < Len(scan.before)
    /\ <<scan.before[p], scan.before[p + 1]>> = Placeholder
    /\ ~InMatch(scan, p) /\ ~InMatch(scan, p + 1)

\* the places of scan.before, from p on, that the scan leaves in the working
\* copy: those in no match of the scan and, when the scan did not fail, in
\* no placeholder text
RECURSIVE Kept(_, _)
Kept(scan, p) ==
    IF p > Len(scan.before) THEN <<>>
    ELSE IF InMatch(scan, p) THEN Kept(scan, p + 1)
    ELSE IF ~scan.error /\ PlaceholderAt(scan, p) THEN Kept(scan, p + 2)
    ELSE <<p>> \o Kept(scan, p + 1)

\* for each character of the working copy that scan k reads, its place in
\* the text given to extract_tool_calls
RECURSIVE Origins(_, _)
Origins(ss, k) ==
    IF k = 1 THEN [p \in 1..Len(ss[1].before) |-> p]
    ELSE LET kept == Kept(ss[k - 1], 1)
             o == Origins(ss, k - 1)
         IN  [q \in 1..Len(kept) |-> o[kept[q]]]

\* the places in the text of the characters of match m of scan k
MatchedOrigins(ss, k, m) ==
    LET o == Origins(ss, k)
    IN  { o[p] : p \in (ss[k].matches[m].start + 1)..(ss[k].matches[m].end) }

\* each scan reads what the scan before it left, and leaves what it read
\* without the characters of its matches and without placeholder texts
WorkingCopyShrinks ==
    \A k \in 1..Len(scans) :
        LET kept == Kept(scans[k], 1)
        IN  /\ scans[k].before = IF k = 1 THEN text ELSE scans[k - 1].after
            /\ scans[k].after = [q \in 1..Len(kept) |-> scans[k].before[kept[q]]]

MatchCount(ss) == Len(CallsOf(ss))

\* C11: no character of a span that one tool's pattern matched takes part in
\* a match of a tool processed later, and every call stands for one match:
\* a span two patterns could claim gives a call of the earlier tool only.
C11_MaskedSpansStayOut ==
    /\ WorkingCopyShrinks
    /\ \A j, k \in 1..Len(scans) :
          j < k =>
            \A m \in 1..Len(scans[j].matches), n \in 1..Len(scans[k].matches) :
                MatchedOrigins(scans, j, m) \cap MatchedOrigins(scans, k, n) = {}
    /\ \A k \in 1..Len(scans) : Len(scans[k].calls) = Len(scans[k].matches)
    /\ Len(tool_calls) = MatchCount(scans)

\* "[SEARCH:x ]" with the same pattern registered for two tools, app first
\* by priority: one call, app's
C11_Witness ==
    /\ text = <<"[S", "x", " ", "]">>
    /\ Len(patterns) = 2
    /\ patterns[1].pattern = Pattern("[S", 1, TRUE, TRUE)
    /\ patterns[2].pattern = Pattern("[S", 1, TRUE, TRUE)
    /\ priorities["app"] < priorities["search"]
    /\ tool_calls = << <<"app", <<"x">> >> >>

\* the calls of tool name among calls, in their order
CallsNamed(calls, name) == SelectSeq(calls, LAMBDA c : c[1] = name)

\* the place in scans of the scan of tool name
ScanIndex(name) == CHOOSE j \in 1..Len(scans) : scans[j].name = name

\* the text holds exactly one marker of the k-th registered tool, whose
\* pattern compiles and captures group 1
OneMarker(k) ==
    /\ scans # <<>>
    /\ patterns[k].pattern.valid /\ patterns[k].pattern.group
    /\ Len(FindIter(patterns[k].pattern, text, 0)) = 1

TheMarker(k) == FindIter(patterns[k].pattern, text, 0)[1]

\* every character of the marker is in the working copy that the scan of the
\* k-th registered tool reads: no tool processed before it matched a span
\* that shares a character with the marker, and no scan before it removed a
\* placeholder text that shares one with it
MarkerIntact(k) ==
    LET o == Origins(scans, ScanIndex(patterns[k].name))
    IN  \A p \in (TheMarker(k).start + 1)..(TheMarker(k).end) :
            \E q \in 1..Len(o) : o[q] = p

\* the tool's calls are one call, with the marker's trimmed group 1
OneCallOfMarker(k) ==
    CallsNamed(tool_calls, patterns[k].name)
        = << <<patterns[k].name, Strip(TheMarker(k).group1)>> >>

RECURSIVE CallStarts(_, _)
CallStarts(ss, k) ==
    IF k > Len(ss) THEN <<>>
    ELSE [m \in 1..Len(ss[k].matches) |-> Origins(ss, k)[ss[k].matches[m].start + 1]]
         \o CallStarts(ss, k + 1)

\* C13 as claimed: two calls of equal priority, of one tool or of two, stand
\* in tool_calls in the order of their markers in the text.
C13_EqualPriorityByPosition ==
    LET starts == CallStarts(scans, 1)
    IN  \A i, j \in 1..Len(tool_calls) :
            /\ i < j
            /\ priorities[tool_calls[i][1]] = priorities[tool_calls[j][1]]
            => starts[i] < starts[j]

\* what does hold: the calls of one tool stand in the order of their markers
C13_SameToolByPosition ==
    LET starts == CallStarts(scans, 1)
    IN  \A i, j \in 1..Len(tool_calls) :
            i < j /\ tool_calls[i][1] = tool_calls[j][1] => starts[i] < starts[j]

\* self.patterns without its k-th item
Without(ps, k) == SubSeq(ps, 1, k - 1) \o SubSeq(ps, k + 1, Len(ps))

\* what extract_tool_calls returns for the text when the k-th registered
\* tool is not registered
CallsWithout(k) == ExtractToolCalls(Without(patterns, k), priorities, text)

\* C14: a tool whose pattern raises re.error gives no call, the extraction
\* goes on, and the calls are those of the same registry without that tool.
C14_FailingToolIsolated ==
    \A k \in 1..Len(patterns) :
        scans # <<>> /\ ~patterns[k].pattern.valid =>
            /\ Len(scans) = Len(patterns)
            /\ scans[ScanIndex(patterns[k].name)].error
            /\ CallsNamed(tool_calls, patterns[k].name) = <<>>
            /\ tool_calls = CallsWithout(k)

\* "[SEARCH:x ]": app's pattern does not compile and is scanned first,
\* search's call is extracted
C14_Witness ==
    /\ text = <<"[S", "x", " ", "]">>
    /\ Len(patterns) = 2
    /\ scans[1].name = "app" /\ scans[1].error
    /\ tool_calls = << <<"search", <<"x">> >> >>

\* a tool whose pattern compiles and finds no match is not as inert: its
\* scan removes the placeholder texts of the working copy, so this does not
\* hold for texts that hold "[#MATCHED#]"
C14_UnmatchedToolIsolated ==
    \A k \in 1..Len(patterns) :
        /\ scans # <<>>
        /\ scans[ScanIndex(patterns[k].name)].matches = <<>>
        => tool_calls = CallsWithout(k)

-----------------------------------------------------------------------------
\* Claims about what the turn loops execute and leave in History (SpecTurn)

IsModelTurn(t) == t.tool = "none" /\ t.role \in {"assistant", "model"}
IsToolTurn(t) == t.tool # "none"

\* the tool-result turns that follow place m of h without a break
RECURSIVE RunAfter(_, _)
RunAfter(h, m) ==
    IF m < Len(h) /\ IsToolTurn(h[m + 1]) THEN <<h[m + 1]>> \o RunAfter(h, m + 1)
    ELSE <<>>

\* the calls that a run of tool-result turns names
CallsIn(run) == [k \in 1..Len(run) |-> <<run[k].tool, run[k].value>>]

\* the calls of the running batch whose results a console loop still holds
\* in tool_results
PendingCalls ==
    IF loop \in ConsoleLoops /\ pc = "execute"
    THEN [k \in 1..Len(tool_results) |-> <<tool_results[k][1], tool_results[k][2]>>]
    ELSE <<>>

IsLastModelTurn(h, m) == \A n \in (m + 1)..Len(h) : ~IsModelTurn(h[n])

\* what extract_tool_calls finds in each text of the model, on the registry
\* of tools/__init__.py
FoundIn ==
    [t \in ModelTexts |->
        ExtractToolCalls(tool_registry.patterns, tool_registry.priorities, t)]

\* C16: the calls executed after a model response are calls extracted from
\* that response, in their order: all of them once the batch is over, the
\* first ones while it runs or when an exception ended it, none when the
\* loop stopped on the response.  No
\* tool-result turn follows a user turn or the system prompt, so a marker
\* of the user input or of an earlier turn is not executed.
C16_OnlyLatestResponseExecuted ==
    LET h == conversation_history
    IN  /\ \A k \in 1..Len(h) :
              IsToolTurn(h[k]) => k > 1 /\ (IsToolTurn(h[k - 1]) \/ IsModelTurn(h[k - 1]))
        /\ \A m \in 1..Len(h) :
              IsModelTurn(h[m]) =>
                LET found == FoundIn[h[m].text]
                    done == CallsIn(RunAfter(h, m))
                IN  IF ~IsLastModelTurn(h, m) THEN found # <<>> /\ done = found
                    ELSE IF pc = "execute"
                    THEN done \o PendingCalls = SubSeq(found, 1, next_call - 1)
                    ELSE IF pc = "error"
                    THEN \E n \in 0..Len(found) : done = SubSeq(found, 1, n)
                    ELSE done = found \/ done = <<>>

\* the user wrote "[SEARCH:x]", the model answered without a marker: the turn
\* is over and nothing was executed
C16_Witness ==
    /\ pc = "done"
    /\ Len(conversation_history) = 3
    /\ conversation_history[2].text = <<"[S", "x", "]">>
    /\ conversation_history[3].text = Plain
    /\ call = NoCall

\* an Exception has left the batch
BatchFailed == call.behaviour = "escapes"

ModelCallFailed ==
    \/ pc = "error" /\ ~BatchFailed
    \/ text = ErrorText

\* C18 as claimed: a failed model call is reported as an error and not as a
\* model turn of History, the turn is over, and the text of the failure is
\* not searched for tool calls.
C18_ModelFailureIsErrorTurn ==
    ModelCallFailed =>
        /\ pc = "error"
        /\ emitted[Len(emitted)] = ErrorOutput
        /\ \A k \in 1..Len(conversation_history) :
              conversation_history[k].text # ErrorText
        /\ text # ErrorText

\* what does hold: the turn is over, nothing was executed for the failed
\* call and the turns appended before it are in History
C18_ModelFailureEndsTurn ==
    ModelCallFailed =>
        /\ pc \in {"error", "done"}
        /\ IF loop \in ConsoleLoops
           THEN /\ conversation_history[Len(conversation_history)]
                      = Turn(ModelRole(loop), ErrorText)
                /\ tool_calls = <<>>
           ELSE emitted[Len(emitted)] = ErrorOutput

-----------------------------------------------------------------------------
\* Claims about the sessions of api_server (SpecSessions)

\* C15: within one session at most one tool execution is under way, a call
\* is started only when the one before it has returned, and the tool-result
\* turns that follow a model response in History are the calls extracted
\* from it, one turn per call in the order of extraction: the first ones
\* while the batch runs, all of them when it is over.
C15_OneExecutionAtATime ==
    \A c \in DOMAIN active_connections :
        LET h == handlers[c]
            history == active_connections[c].history
        IN  /\ h.running = h.started - h.finished
            /\ h.running \in {0, 1}
            /\ (h.running = 1) = (h.pc \in {"running", "abandoned"})
            /\ \A m \in 1..Len(history) :
                  IsModelTurn(history[m]) =>
                    LET found == FoundIn[history[m].text]
                        done == CallsIn(RunAfter(history, m))
                    IN  IF IsLastModelTurn(history, m)
                           /\ h.pc \in {"tool", "running", "abandoned"}
                        THEN /\ h.tool_calls = found
                             /\ done = SubSeq(found, 1, h.finished)
                        ELSE done = found

\* two sessions each run the second call of a batch of two, and the first
\* call's result is in each History
C15_Witness ==
    \A c \in Connections :
        /\ c \in DOMAIN active_connections
        /\ handlers[c].pc = "running"
        /\ Len(handlers[c].tool_calls) = 2
        /\ handlers[c].finished = 1
        /\ IsToolTurn(active_connections[c].history[Len(active_connections[c].history)])


\* the step that was just taken by connection c is one of types
StepOf(c, types) == event'.conn = c /\ event'.type \in types

\* C17: a step of a turn (user message, model response, tool result) puts
\* one turn at the end of the session's History and leaves the turns before
\* it as they were; start_chat and load_chat, which the handler takes only
\* between turns, are the only steps that put another History in its place;
\* no other step changes it.
C17_HistoryOnlyGrows ==
    [][\A c \in DOMAIN active_connections \cap DOMAIN active_connections' :
          LET old == active_connections[c].history
              new == active_connections'[c].history
          IN  IF StepOf(c, {"start_chat", "load_chat"})
              THEN handlers[c].pc = "receive" /\ handlers'[c].pc = "receive"
              ELSE IF StepOf(c, {"user_message", "model", "tool_result"})
              THEN Len(new) = Len(old) + 1 /\ SubSeq(new, 1, Len(old)) = old
              ELSE new = old]_vars

\* a session had a turn with a tool batch, and a start_chat after the turn
\* left the system prompt alone in its History
C17_Witness ==
    \E c \in DOMAIN active_connections :
        /\ event = [conn |-> c, type |-> "start_chat"]
        /\ Len(active_connections[c].history) = 1
        /\ marked = 1
        /\ \A d \in Connections \ {c} : handlers[d].pc = "init"


\* The same of the four turn loops on their own (SpecTurn): every step leaves
\* History as it was or puts turns at its end.
C17_TurnLoopAppends ==
    [][/\ Len(conversation_history') >= Len(conversation_history)
       /\ SubSeq(conversation_history', 1, Len(conversation_history))
              = conversation_history]_vars

C20_HistoriesIndependent ==
    [][\A d \in Connections \ {event'.conn} :
          /\ (d \in DOMAIN active_connections') = (d \in DOMAIN active_connections)
          /\ d \in DOMAIN active_connections =>
                active_connections'[d] = active_connections[d]]_vars

\* The part of C20 about the backend, for the sessions whose model is
\* openai: send_to_openai sends the messages it is given and nothing else.
C20_OpenAIContentOwn ==
    \A c \in DOMAIN active_connections :
        (handlers[c].model_to_use = "openai" /\ event = [conn |-> c, type |-> "model"])
            => backend_content[c] = {c}

\* the turn loop of connection c runs
TurnInProgress(c) == handlers[c].pc \in {"model", "tool", "running", "abandoned"}

Messages == {"user_message", "start_chat", "load_chat", "unknown"}

\* C21: while the turn loop of a connection runs, no message of that
\* connection is processed, and the only steps that change the connection's
\* History are the steps of that one loop.
C21_OneTurnAtATime ==
    [][\A c \in Connections :
          TurnInProgress(c) =>
            /\ ~StepOf(c, Messages)
            /\ (/\ c \in DOMAIN active_connections'
                /\ active_connections'[c].history # active_connections[c].history)
                  => StepOf(c, {"model", "tool_result"})]_vars

\* a connection's turn ran two tool batches and came to its end; the
\* load_chat that the connection sent next has been processed
C21_Witness ==
    \E c \in DOMAIN active_connections :
        /\ event = [conn |-> c, type |-> "load_chat"]
        /\ received = 2
        /\ marked = 2
        /\ Len(active_connections[c].history) = 2
        /\ \A d \in Connections \ {c} : handlers[d].pc = "init"

-----------------------------------------------------------------------------
\* Claims about how the turn loops end (SpecTurn)

LastTurn == conversation_history[Len(conversation_history)]

\* C22 as claimed: when the turn loop has stopped, the last turn of History
\* is a model response, also when the loop stopped at the ceiling.
C22_TurnEndsWithModelResponse ==
    pc = "done" => IsModelTurn(LastTurn)

\* What the loops do: the last turn is a model response when the loop
\* stopped below the ceiling, and in gemini_chatbot also at the ceiling; in
\* openai_chatbot and api_server a loop that stopped at the ceiling leaves
\* the last result of the last batch as the last turn.
C22_TurnEndsWithModelResponseBelowCeiling ==
    pc = "done" =>
        IF loop = "gemini_chatbot" \/ ~ReachedCeiling(tool_call_count)
        THEN IsModelTurn(LastTurn)
        ELSE IsToolTurn(LastTurn)

-----------------------------------------------------------------------------
\* Claims about what execute hands back (SpecExecute)

\* C23: when execute has called a handler that returns, the caller has the
\* handler's text for the arguments it was called with, whether the handler
\* is a plain function or a coroutine function and whether it took one
\* argument or two; execute never hands back a coroutine object.
C23_AwaitedResult ==
    /\ result.kind # "coroutine object"
    /\ (RegisteredCall /\ call.behaviour = "returns"
            /\ result.kind \notin {"Error: Invalid arguments",
                                   "Error: Path/start_path argument cannot be empty",
                                   "Error: Missing argument"})
          => /\ ~raised
             /\ Len(invoked) = 1
             /\ result = HandlerText(call.tool_type, invoked[1].args)

\* a plain function registered for fs_write was called with two arguments
\* and its text came back
C23_Witness ==
    /\ ~tools["fs_write"].coroutine
    /\ call.tool_type = "fs_write"
    /\ result.kind = "handler text"
    /\ Len(result.args) = 2

-----------------------------------------------------------------------------
\* Claims about the spans of the calls and the length of the working copy
\* (SpecExtract)

\* the places of S are next to each other
IsInterval(S) == \A a, b \in S : \A p \in a..b : p \in S

\* the matches of the extraction: <<scan, match>>
AllMatches ==
    { <<k, m>> \in (1..Len(scans)) \X (1..MaxPieces * 4) : m <= Len(scans[k].matches) }

\* C24 as claimed: the characters of every match stand next to each other
\* in the text given to extract_tool_calls, and no two matches share a
\* character.
C24_SpansContiguousAndDisjoint ==
    /\ \A km \in AllMatches : IsInterval(MatchedOrigins(scans, km[1], km[2]))
    /\ \A km, ln \in AllMatches :
          km # ln =>
            MatchedOrigins(scans, km[1], km[2])
                \cap MatchedOrigins(scans, ln[1], ln[2]) = {}

\* The part of C24 that the code keeps: no two matches share a character.
C24_SpansDisjoint ==
    \A km, ln \in AllMatches :
        km # ln =>
          MatchedOrigins(scans, km[1], km[2])
              \cap MatchedOrigins(scans, ln[1], ln[2]) = {}

\* C25 as claimed: after each tool's scan the working copy is as long as the
\* text given to extract_tool_calls.
C25_MaskingPreservesLength ==
    \A k \in 1..Len(scans) : Len(scans[k].after) = Len(text)

\* What the code does: a scan that matched leaves a working copy shorter
\* than the one it read by at least the characters of its matches, and a
\* scan that did not match leaves none that is longer.
C25_MaskingDeletes ==
    \A k \in 1..Len(scans) :
        LET matched == UNION { MatchedOrigins(scans, k, m) :
                                 m \in 1..Len(scans[k].matches) }
        IN  Len(scans[k].after) <= Len(scans[k].before) - Cardinality(matched)

-----------------------------------------------------------------------------
\* Claims about the steps of a batch (SpecTurn)

\* the place in History of the last model response
LastModelTurn ==
    CHOOSE m \in 1..Len(conversation_history) :
        /\ IsModelTurn(conversation_history[m])
        /\ IsLastModelTurn(conversation_history, m)

\* the calls of the running batch whose results are in History
ResultsInHistory == CallsIn(RunAfter(conversation_history, LastModelTurn))

\* C26 as claimed: when a call of a batch is about to be dispatched, History
\* holds the tool-result turn of every call of the batch before it, in each
\* of the loops.
C26_ResultAppendedBeforeNextCall ==
    pc = "execute" => ResultsInHistory = SubSeq(tool_calls, 1, next_call - 1)

\* What the loops do: api_server appends each result before the next call;
\* the console loops keep the results in tool_results while the batch runs
\* and History holds none of them until the last call has returned.
C26_ResultAppendedBeforeNextCallInApiServer ==
    pc = "execute" =>
        IF loop \in ConsoleLoops
        THEN ResultsInHistory = <<>> /\ PendingCalls = SubSeq(tool_calls, 1, next_call - 1)
        ELSE ResultsInHistory = SubSeq(tool_calls, 1, next_call - 1)

-----------------------------------------------------------------------------
\* Claims about the end of a session (SpecSessions)

HandlerRuns(c) == handlers[c].pc \notin {"init", "closed"}

\* C27: active_connections holds an entry for exactly the connections whose
\* handler runs.  When the client has gone while a tool runs, the handler
\* stays until the execution has ended; the step that ends it appends
\* nothing and deletes the entry.  Every step that leaves the handler
\* deletes the entry, and a handler that was left stays so, with no entry.
C27_DisconnectDiscards ==
    /\ [](DOMAIN active_connections = {c \in Connections : HandlerRuns(c)})
    /\ [][\A c \in Connections :
            /\ (handlers[c].pc = "abandoned" /\ handlers'[c] # handlers[c]) =>
                  /\ StepOf(c, {"tool_discarded", "error"})
                  /\ handlers'[c].pc = "closed"
            /\ StepOf(c, {"disconnect", "tool_discarded", "error"}) =>
                  /\ c \notin DOMAIN active_connections'
                  /\ handlers'[c].pc = "closed"
            /\ handlers[c].pc = "closed" =>
                  /\ handlers'[c].pc = "closed"
                  /\ c \notin DOMAIN active_connections']_vars

\* a client went while its tool ran; the execution has ended, its session
\* has no entry, and the other session is in its turn
C27_Witness ==
    \E c \in Connections :
        /\ event = [conn |-> c, type |-> "tool_discarded"]
        /\ c \notin DOMAIN active_connections
        /\ \E d \in DOMAIN active_connections : TurnInProgress(d)

-----------------------------------------------------------------------------
\* C28: under any interleaving of store_memory and query_memory calls, at
\* most one coroutine at a time is in the initialization section of
\* _initialize_astra_db_resources (AstraDB, create_collection) and it holds
\* db_lock; no coroutine enters the section once collection_instance is
\* set; and an initialization that fails leaves db_instance and
\* collection_instance both unset, so that a later call starts again from
\* AstraDB.
Initializing == {k \in Coroutines : coroutines[k].pc \in {"AstraDB", "create_collection"}}

OneInitializes ==
    /\ Cardinality(Initializing) <= 1
    /\ \A k \in Initializing : db_lock = k /\ collection_instance = Unset
    /\ Initializing = {} =>
         /\ db_lock = "free"
         /\ (db_instance = Unset) = (collection_instance = Unset)

InitializationStep ==
    \A k \in Coroutines :
      LET before == coroutines[k]
          after == coroutines'[k]
          inside == {"AstraDB", "create_collection"}
      IN  /\ (before.pc \notin inside /\ after.pc \in inside) =>
                /\ collection_instance = Unset
                /\ (after.pc = "AstraDB") = (db_instance = Unset)
          /\ (before.pc \in inside /\ after.pc = "returned"
                 /\ after.outcome = "None") =>
                /\ db_instance' = Unset
                /\ collection_instance' = Unset
                /\ db_lock' = "free"
          /\ (before.pc \in inside /\ after.pc = "returned"
                 /\ after.outcome = "collection") =>
                /\ collection_instance' # Unset
                /\ db_instance' # Unset

C28_OneInitializationAtATime == []OneInitializes /\ [][InitializationStep]_vars

\* an initialization failed, another call has started it again, and a
\* third coroutine waits for db_lock
C28_Witness ==
    \E k1, k2, k3 \in Coroutines :
      /\ coroutines[k1].pc = "returned" /\ coroutines[k1].outcome = "None"
      /\ credentials
      /\ coroutines[k2].pc = "AstraDB" /\ db_lock = k2
      /\ coroutines[k3].pc = "db_lock"
      /\ coroutines[k1].op # coroutines[k3].op

-----------------------------------------------------------------------------
\* C29: a user_message that carries a 'model' field is processed with that
\* model for its turn: the user's turn is labelled for it ("user" for openai,
\* "human" for gemini) and it is the model that is called, whatever the
\* default of the endpoint and whatever model earlier messages selected.
UserMessageReceived(c) ==
    /\ DOMAIN event = {"conn", "type", "model"}
    /\ event.conn = c
    /\ event.type = "user_message"

LastOf(history) == history[Len(history)]

C29_MessageModelUsed ==
    \A c \in DOMAIN handlers :
      (UserMessageReceived(c) /\ event.model # NoModel) =>
        /\ handlers[c].model_to_use = event.model
        /\ LastOf(active_connections[c].history).role =
             (IF event.model = "openai" THEN "user" ELSE "human")

\* what the code does: the 'model' field of the message counts only when it
\* differs from the default of the endpoint; otherwise the model_type that
\* the entry had before the message is used
C29_MessageModelUsedWhenNotDefault ==
    \A c \in DOMAIN handlers :
      (/\ UserMessageReceived(c)
       /\ event.model # NoModel
       /\ event.model # handlers[c].default_model_type) =>
        /\ handlers[c].model_to_use = event.model
        /\ active_connections[c].model_type = event.model
        /\ LastOf(active_connections[c].history).role =
             (IF event.model = "openai" THEN "user" ELSE "human")

-----------------------------------------------------------------------------
\* C30: the three turn loops are the same state machine: given the same
\* model responses they make the same number of model calls and execute the
\* same batches, also at the ceiling.  For the responses that all hold a
\* marker, the turn of openai_chatbot and of api_server has
\* MAX_CONSECUTIVE_TOOL_CALLS model calls and as many batches; the same
\* holds of every loop.
C30_LoopsAreOneMachine ==
    (pc = "done" /\ all_marked /\ ReachedCeiling(tool_call_count)) =>
        /\ batches = MAX_CONSECUTIVE_TOOL_CALLS
        /\ model_calls = MAX_CONSECUTIVE_TOOL_CALLS

\* What the loops do: below the ceiling each loop calls the model once more
\* than it executes batches; at the ceiling gemini_chatbot calls the model
\* once more, after the last batch, and the other loops do not.
C30_LoopsAgreeBelowCeiling ==
    (pc = "done" /\ IsModelTurn(LastTurn) /\ ~ReachedCeiling(tool_call_count)) =>
        model_calls = batches + 1

C30_LoopsAtCeiling ==
    (pc = "done" /\ ReachedCeiling(tool_call_count)) =>
        /\ batches = MAX_CONSECUTIVE_TOOL_CALLS
        /\ model_calls = batches + (IF loop = "gemini_chatbot" THEN 1 ELSE 0)

====
